---- MODULE Spec2Model ----
(***************************************************************************)
(* Model of services/template_renderer.go (TemplateRenderer): a cache of   *)
(* compiled html/template sets keyed by "group:id", filled by Parse,       *)
(* read by Load and Execute, with hot-reload in the local environment.     *)
(*                                                                         *)
(* Strings are sequences of tokens so that concatenation (the cache key,   *)
(* the resolved file path, the glob pattern, the template name) is         *)
(* modelled by what fmt.Sprintf does.  Each caller (goroutine) runs one    *)
(* call at a time; a call is a sequence of steps, one per access to the    *)
(* shared cache, configuration or filesystem.                              *)
(***************************************************************************)
EXTENDS Integers, Sequences, FiniteSets, TLC

VARIABLES
    cache,    \* t.templateCache: cache key -> compiled template (partial)
    env,      \* t.config.App.Environment
    fs,       \* the filesystem under the templates root: path -> contents
    pc,       \* per caller: the position of its current call
    call,     \* per caller: the arguments of its current (or last) call
    parsed,   \* per caller: the local variable `parsed` of Parse
    res,      \* per caller: what its last call returned
    hist,     \* per caller: which branches the current (or last) call took
    nCalls,   \* number of calls started so far
    parsers   \* (group, id) pair -> callers that ever called Parse on it

vars == <<cache, env, fs, pc, call, parsed, res, hist, nCalls, parsers>>

----------------------------------------------------------------------------
(* Bounds *)

MaxCalls == 2
MaxSeqCalls == 3
NumCallers == 2

Procs == 1..NumCallers

----------------------------------------------------------------------------
(* Configuration values used by the renderer *)

EnvLocal == "local"
EnvProd == "prod"
Environments == {EnvLocal, EnvProd}

TemplateExt == ".gohtml"
templatesPath == <<"ROOT">>

----------------------------------------------------------------------------
(* Errors *)

NoErr == "nil"
ErrNotFound == "uncached page template requested"
ErrCast == "unable to cast cached template"
ErrParse == "ParseError"
ErrExec == "ExecutionError"

NilBuf == <<>>

----------------------------------------------------------------------------
(* Inputs *)

Pairs == { <<<<"g">>, <<"i">>>>,
           <<<<"g", ":">>, <<"i">>>>,
           <<<<"g">>, <<":", "i">>>> }

Names == { <<"index">>, <<"other">> }

\* the (name, files, directories) arguments of Parse and ParseAndExecute:
\* a page with its file; the same with a directory that matches no file;
\* no files and no directories; a name that is not among the files, with a
\* directory of components; a file that does not exist after one that does
ParseArgs == {
    [name |-> <<"index">>, files |-> << <<"index">> >>, dirs |-> <<>>],
    [name |-> <<"index">>, files |-> << <<"index">> >>, dirs |-> << <<"nodir">> >>],
    [name |-> <<"index">>, files |-> <<>>, dirs |-> <<>>],
    [name |-> <<"other">>, files |-> << <<"index">> >>, dirs |-> << <<"components">> >>],
    [name |-> <<"index">>, files |-> << <<"index">>, <<"missing">> >>, dirs |-> <<>>] }

DataValues == { "withTitle", "noTitle" }
NoData == "nodata"

NoFile == "nofile"
BadSyntax == "{{bad"
Contents == { "plain", "{{.Title}}" }

IndexPath == <<"ROOT", "/", "index", TemplateExt>>
ComponentPath == <<"ROOT", "/", "components", "/", "c", TemplateExt>>
FsPaths == { IndexPath, ComponentPath }
WritablePaths == { IndexPath }

----------------------------------------------------------------------------
(* Pure functions *)

\* fmt.Sprintf("%s:%s", group, id)
getCacheKey(group, id) == group \o <<":">> \o id

\* fmt.Sprintf("%s/%s%s", t.templatesPath, v, config.TemplateExt)
ResolveFile(v) == templatesPath \o <<"/">> \o v \o <<TemplateExt>>

ResolveFiles(files) == [k \in 1..Len(files) |-> ResolveFile(files[k])]

\* fmt.Sprintf("%s/%s/*%s", t.templatesPath, dir, config.TemplateExt)
GlobPattern(dir) == templatesPath \o <<"/">> \o dir \o <<"/", "*", TemplateExt>>

\* filepath.Base: what follows the last separator
Base(path) ==
    LET seps == { k \in 1..Len(path) : path[k] = "/" }
        last == IF seps = {} THEN 0 ELSE CHOOSE k \in seps : \A j \in seps : j <= k
    IN SubSeq(path, last + 1, Len(path))

ReadFile(fsys, path) == IF path \in DOMAIN fsys THEN fsys[path] ELSE NoFile

\* filepath.Glob: "*" matches one path element
Matches(path, pattern) ==
    /\ Len(path) = Len(pattern)
    /\ \A k \in 1..Len(path) :
          IF pattern[k] = "*" THEN path[k] # "/" ELSE path[k] = pattern[k]

Glob(fsys, pattern) ==
    { path \in DOMAIN fsys : fsys[path] # NoFile /\ Matches(path, pattern) }

\* the dynamic type of a value: the cache holds values of any type
TemplateType == "*template.Template"
NilType == "nil"

NoId == [by |-> 0, n |-> 0]
EmptyBodies == [b \in {} |-> "plain"]
NoTemplate == [typ |-> NilType, id |-> NoId, name |-> <<>>, bodies |-> EmptyBodies]

\* the new template as it would be if it were of another package's type
NewTemplate_TextTemplate(id, name) ==
    [typ |-> "*text/template.Template", id |-> id, name |-> name \o <<TemplateExt>>,
     bodies |-> EmptyBodies]

\* template.New(name + config.TemplateExt).Funcs(t.funcMap)
NewTemplate(id, name) ==
    [typ |-> TemplateType, id |-> id, name |-> name \o <<TemplateExt>>,
     bodies |-> EmptyBodies]

\* (*Template).Parse of one file's text under the file's base name
AddBody(t, base, text) ==
    [t EXCEPT !.bodies = [b \in DOMAIN t.bodies \cup {base} |->
                             IF b = base THEN text ELSE t.bodies[b]]]

\* ParseFiles as it would be if a file that cannot be read were skipped
RECURSIVE ParseFilesOp_SkipMissing(_, _, _)
ParseFilesOp_SkipMissing(t, files, fsys) ==
    IF files = <<>> THEN [err |-> NoErr, tmpl |-> t]
    ELSE LET text == ReadFile(fsys, Head(files)) IN
         IF text = BadSyntax
         THEN [err |-> ErrParse, tmpl |-> NoTemplate]
         ELSE IF text = NoFile
         THEN ParseFilesOp_SkipMissing(t, Tail(files), fsys)
         ELSE ParseFilesOp_SkipMissing(AddBody(t, Base(Head(files)), text),
                                       Tail(files), fsys)

\* (*Template).ParseFiles: read and parse the files in order, stop at the
\* first file that cannot be read or parsed
RECURSIVE ParseFilesOp(_, _, _)
ParseFilesOp(t, files, fsys) ==
    IF files = <<>> THEN [err |-> NoErr, tmpl |-> t]
    ELSE LET text == ReadFile(fsys, Head(files)) IN
         IF text = NoFile \/ text = BadSyntax
         THEN [err |-> ErrParse, tmpl |-> NoTemplate]
         ELSE ParseFilesOp(AddBody(t, Base(Head(files)), text), Tail(files), fsys)

RECURSIVE SetToSeq(_)
SetToSeq(S) ==
    IF S = {} THEN <<>>
    ELSE LET x == CHOOSE y \in S : TRUE IN <<x>> \o SetToSeq(S \ {x})

\* (*Template).ParseGlob: fails when the pattern matches no file
ParseGlobOp(t, pattern, fsys) ==
    LET names == Glob(fsys, pattern) IN
    IF names = {} THEN [err |-> ErrParse, tmpl |-> NoTemplate]
    ELSE ParseFilesOp(t, SetToSeq(names), fsys)

\* the loop over directories of Parse
RECURSIVE ParseDirsOp(_, _, _)
ParseDirsOp(t, dirs, fsys) ==
    IF dirs = <<>> THEN [err |-> NoErr, tmpl |-> t]
    ELSE LET r == ParseGlobOp(t, GlobPattern(Head(dirs)), fsys) IN
         IF r.err # NoErr THEN r
         ELSE ParseDirsOp(r.tmpl, Tail(dirs), fsys)

\* rendering of one template body against the data
Render(text, data) ==
    IF text = "{{.Title}}" /\ data = "noTitle"
    THEN [err |-> ErrExec, buf |-> NilBuf]
    ELSE [err |-> NoErr, buf |-> <<text, data>>]

\* ExecuteTemplate as it would be if an undefined name were reported as an
\* uncached template
ExecuteTemplate_NotFound(t, name, data) ==
    IF name \notin DOMAIN t.bodies
    THEN [err |-> ErrNotFound, buf |-> NilBuf]
    ELSE Render(t.bodies[name], data)

\* (*Template).ExecuteTemplate
ExecuteTemplate(t, name, data) ==
    IF name \notin DOMAIN t.bodies
    THEN [err |-> ErrExec, buf |-> NilBuf]
    ELSE Render(t.bodies[name], data)

\* TemplateRenderer.Load
Load(c, group, id) ==
    LET key == getCacheKey(group, id) IN
    IF key \notin DOMAIN c
    THEN [err |-> ErrNotFound, tmpl |-> NoTemplate]
    ELSE IF c[key].typ # TemplateType
    THEN [err |-> ErrCast, tmpl |-> NoTemplate]
    ELSE [err |-> NoErr, tmpl |-> c[key]]

\* Store as it would be if the new template were merged into the entry that
\* the key has
Store_Merge(c, key, t) ==
    [k \in DOMAIN c \cup {key} |->
        IF k # key THEN c[k]
        ELSE IF key \notin DOMAIN c THEN t
        ELSE [t EXCEPT !.bodies =
                 [b \in DOMAIN t.bodies \cup DOMAIN c[key].bodies |->
                     IF b \in DOMAIN t.bodies THEN t.bodies[b]
                     ELSE c[key].bodies[b]]]]

\* Store as it would be if storing a key dropped the entries of the other keys
Store_DropOthers(c, key, t) ==
    [k \in {key} |-> t]

\* sync.Map.Store
Store(c, key, t) ==
    [k \in DOMAIN c \cup {key} |-> IF k = key THEN t ELSE c[k]]

\* the condition as it would be if only the environment decided
NeedsParse_LocalOnly(loadErr, environment) == environment = EnvLocal

\* the condition as it would be if every call parsed afresh
NeedsParse_Always(loadErr, environment) == TRUE

\* the condition as it would be if the environment were not consulted
NeedsParse_CacheOnly(loadErr, environment) == loadErr # NoErr

\* the condition of Parse that decides between a fresh parse and a no-op
NeedsParse(loadErr, environment) ==
    loadErr # NoErr \/ environment = EnvLocal

----------------------------------------------------------------------------
(* State *)

NoCall == [op |-> "none", group |-> <<>>, id |-> <<>>, name |-> <<>>,
           files |-> <<>>, files0 |-> <<>>, dirs |-> <<>>, data |-> NoData,
           cid |-> NoId]
NoRes == [err |-> NoErr, buf |-> NilBuf, tid |-> NoId]
NoHist == [hadEntry |-> FALSE, failedAt |-> "none"]

Init ==
    /\ cache = [k \in {} |-> NoTemplate]
    /\ env \in Environments
    /\ fs = [path \in FsPaths |-> "plain"]
    /\ pc = [p \in Procs |-> "idle"]
    /\ call = [p \in Procs |-> NoCall]
    /\ parsed = [p \in Procs |-> NoTemplate]
    /\ res = [p \in Procs |-> NoRes]
    /\ hist = [p \in Procs |-> NoHist]
    /\ nCalls = 0
    /\ parsers = [pr \in Pairs |-> {}]

CacheKeyOf(p) == getCacheKey(call[p].group, call[p].id)
PairOf(p) == <<call[p].group, call[p].id>>
ParsePcs == {"parse_check", "parse_files", "parse_globs", "parse_store"}

----------------------------------------------------------------------------
(* Calls *)

\* a caller starts Parse(group, id, name, files, directories)
CallParse(p) ==
    /\ pc[p] = "idle"
    /\ nCalls < MaxCalls
    /\ \E pr \in Pairs, a \in ParseArgs :
          /\ call' = [call EXCEPT ![p] =
                        [op |-> "Parse", group |-> pr[1], id |-> pr[2], name |-> a.name,
                         files |-> a.files, files0 |-> a.files, dirs |-> a.dirs,
                         data |-> NoData,
                         cid |-> [by |-> p, n |-> nCalls + 1]]]
          /\ parsers' = [parsers EXCEPT ![pr] = @ \cup {p}]
    /\ pc' = [pc EXCEPT ![p] = "parse_check"]
    /\ nCalls' = nCalls + 1
    /\ UNCHANGED <<cache, env, fs, parsed, res, hist>>

\* a caller starts ParseAndExecute(group, id, name, files, directories, data)
CallParseAndExecute(p) ==
    /\ pc[p] = "idle"
    /\ nCalls < MaxCalls
    /\ \E pr \in Pairs, a \in ParseArgs, data \in DataValues :
          /\ call' = [call EXCEPT ![p] =
                        [op |-> "ParseAndExecute", group |-> pr[1], id |-> pr[2],
                         name |-> a.name, files |-> a.files, files0 |-> a.files,
                         dirs |-> a.dirs, data |-> data,
                         cid |-> [by |-> p, n |-> nCalls + 1]]]
          /\ parsers' = [parsers EXCEPT ![pr] = @ \cup {p}]
    /\ pc' = [pc EXCEPT ![p] = "parse_check"]
    /\ nCalls' = nCalls + 1
    /\ UNCHANGED <<cache, env, fs, parsed, res, hist>>

\* a caller starts Execute(group, id, name, data)
CallExecute(p) ==
    /\ pc[p] = "idle"
    /\ nCalls < MaxCalls
    /\ \E pr \in Pairs, name \in Names, data \in DataValues :
          call' = [call EXCEPT ![p] =
                     [op |-> "Execute", group |-> pr[1], id |-> pr[2], name |-> name,
                      files |-> <<>>, files0 |-> <<>>,
                      dirs |-> <<>>, data |-> data,
                      cid |-> [by |-> p, n |-> nCalls + 1]]]
    /\ pc' = [pc EXCEPT ![p] = "exec"]
    /\ nCalls' = nCalls + 1
    /\ UNCHANGED <<cache, env, fs, parsed, res, hist, parsers>>

----------------------------------------------------------------------------
(* Steps of Parse *)

\* ParseAndExecute as it would be if it went on to Execute after a failed Parse
ParseReturn_FallThrough(p, err) ==
    IF call[p].op = "ParseAndExecute"
    THEN /\ pc' = [pc EXCEPT ![p] = "exec"]
         /\ UNCHANGED res
    ELSE /\ pc' = [pc EXCEPT ![p] = "done"]
         /\ res' = [res EXCEPT ![p] = [err |-> err, buf |-> NilBuf, tid |-> NoId]]

\* Parse returns err: to its caller, or to ParseAndExecute, which returns
\* the error with no buffer or goes on to Execute
ParseReturn(p, err) ==
    IF call[p].op = "ParseAndExecute" /\ err = NoErr
    THEN /\ pc' = [pc EXCEPT ![p] = "exec"]
         /\ UNCHANGED res
    ELSE /\ pc' = [pc EXCEPT ![p] = "done"]
         /\ res' = [res EXCEPT ![p] = [err |-> err, buf |-> NilBuf, tid |-> NoId]]

\* Parse: the cache key, the Load, the environment test, the new template
ParseCheck(p) ==
    /\ pc[p] = "parse_check"
    /\ LET l == Load(cache, call[p].group, call[p].id) IN
       /\ hist' = [hist EXCEPT ![p].hadEntry = (l.err = NoErr)]
       /\ IF NeedsParse(l.err, env)
          THEN /\ parsed' = [parsed EXCEPT ![p] = NewTemplate(call[p].cid, call[p].name)]
               /\ pc' = [pc EXCEPT ![p] = "parse_files"]
               /\ UNCHANGED res
          ELSE /\ ParseReturn(p, NoErr)
               /\ UNCHANGED parsed
    /\ UNCHANGED <<cache, env, fs, call, nCalls, parsers>>

\* Parse as it would be without the test of the length of the file list:
\* ParseFiles with no file is an error
ParseFiles_NoLenGuard(p) ==
    /\ pc[p] = "parse_files"
    /\ LET resolved == ResolveFiles(call[p].files)
           r == IF Len(resolved) = 0
                THEN [err |-> ErrParse, tmpl |-> NoTemplate]
                ELSE ParseFilesOp(parsed[p], resolved, fs)
       IN /\ call' = [call EXCEPT ![p].files = resolved]
          /\ parsed' = [parsed EXCEPT ![p] = r.tmpl]
          /\ IF r.err # NoErr
             THEN /\ ParseReturn(p, r.err)
                  /\ hist' = [hist EXCEPT ![p].failedAt = "files"]
             ELSE /\ pc' = [pc EXCEPT ![p] = "parse_globs"]
                  /\ UNCHANGED <<res, hist>>
    /\ UNCHANGED <<cache, env, fs, nCalls, parsers>>

\* Parse: the files are resolved in place in the caller's slice and parsed
ParseFiles(p) ==
    /\ pc[p] = "parse_files"
    /\ IF Len(call[p].files) > 0
       THEN LET resolved == ResolveFiles(call[p].files)
                r == ParseFilesOp(parsed[p], resolved, fs)
            IN /\ call' = [call EXCEPT ![p].files = resolved]
               /\ parsed' = [parsed EXCEPT ![p] = r.tmpl]
               /\ IF r.err # NoErr
                  THEN /\ ParseReturn(p, r.err)
                       /\ hist' = [hist EXCEPT ![p].failedAt = "files"]
                  ELSE /\ pc' = [pc EXCEPT ![p] = "parse_globs"]
                       /\ UNCHANGED <<res, hist>>
       ELSE /\ pc' = [pc EXCEPT ![p] = "parse_globs"]
            /\ UNCHANGED <<call, parsed, res, hist>>
    /\ UNCHANGED <<cache, env, fs, nCalls, parsers>>

\* the loop over directories as it would be if the template built so far
\* were stored when a directory fails to load
ParseGlobs_StorePartial(p) ==
    /\ pc[p] = "parse_globs"
    /\ LET r == ParseDirsOp(parsed[p], call[p].dirs, fs) IN
       /\ parsed' = [parsed EXCEPT ![p] = r.tmpl]
       /\ IF r.err # NoErr
          THEN /\ ParseReturn(p, r.err)
               /\ hist' = [hist EXCEPT ![p].failedAt = "globs"]
               /\ cache' = Store(cache, CacheKeyOf(p), parsed[p])
          ELSE /\ pc' = [pc EXCEPT ![p] = "parse_store"]
               /\ UNCHANGED <<res, hist, cache>>
    /\ UNCHANGED <<env, fs, call, nCalls, parsers>>

\* Parse: the templates of the directories are parsed
ParseGlobs(p) ==
    /\ pc[p] = "parse_globs"
    /\ LET r == ParseDirsOp(parsed[p], call[p].dirs, fs) IN
       /\ parsed' = [parsed EXCEPT ![p] = r.tmpl]
       /\ IF r.err # NoErr
          THEN /\ ParseReturn(p, r.err)
               /\ hist' = [hist EXCEPT ![p].failedAt = "globs"]
          ELSE /\ pc' = [pc EXCEPT ![p] = "parse_store"]
               /\ UNCHANGED <<res, hist>>
    /\ UNCHANGED <<cache, env, fs, call, nCalls, parsers>>

\* Parse: the template is stored under the cache key, and Parse returns nil
ParseStore(p) ==
    /\ pc[p] = "parse_store"
    /\ cache' = Store(cache, CacheKeyOf(p), parsed[p])
    /\ ParseReturn(p, NoErr)
    /\ UNCHANGED <<env, fs, call, parsed, hist, nCalls, parsers>>

----------------------------------------------------------------------------
(* Execute *)

\* Execute as it would be if a template that fails to render were evicted
Execute_EvictOnError(p) ==
    /\ pc[p] = "exec"
    /\ LET l == Load(cache, call[p].group, call[p].id) IN
       IF l.err # NoErr
       THEN /\ res' = [res EXCEPT ![p] = [err |-> l.err, buf |-> NilBuf, tid |-> NoId]]
            /\ UNCHANGED cache
       ELSE LET x == ExecuteTemplate(l.tmpl, call[p].name \o <<TemplateExt>>, call[p].data)
            IN /\ res' = [res EXCEPT ![p] =
                            [err |-> x.err, buf |-> x.buf, tid |-> l.tmpl.id]]
               /\ cache' = IF x.err = NoErr THEN cache
                           ELSE [k \in DOMAIN cache \ {CacheKeyOf(p)} |-> cache[k]]
    /\ pc' = [pc EXCEPT ![p] = "done"]
    /\ UNCHANGED <<env, fs, call, parsed, hist, nCalls, parsers>>

\* Execute as it would be if ParseAndExecute handed it the template that its
\* own Parse compiled
Execute_OwnTemplate(p) ==
    /\ pc[p] = "exec"
    /\ LET l == IF parsed[p].typ = TemplateType
                THEN [err |-> NoErr, tmpl |-> parsed[p]]
                ELSE Load(cache, call[p].group, call[p].id)
       IN
       IF l.err # NoErr
       THEN res' = [res EXCEPT ![p] = [err |-> l.err, buf |-> NilBuf, tid |-> NoId]]
       ELSE LET x == ExecuteTemplate(l.tmpl, call[p].name \o <<TemplateExt>>, call[p].data)
            IN res' = [res EXCEPT ![p] = [err |-> x.err, buf |-> x.buf, tid |-> l.tmpl.id]]
    /\ pc' = [pc EXCEPT ![p] = "done"]
    /\ UNCHANGED <<cache, env, fs, call, parsed, hist, nCalls, parsers>>

\* Execute: Load, then ExecuteTemplate into a fresh buffer
Execute(p) ==
    /\ pc[p] = "exec"
    /\ LET l == Load(cache, call[p].group, call[p].id) IN
       IF l.err # NoErr
       THEN res' = [res EXCEPT ![p] = [err |-> l.err, buf |-> NilBuf, tid |-> NoId]]
       ELSE LET x == ExecuteTemplate(l.tmpl, call[p].name \o <<TemplateExt>>, call[p].data)
            IN res' = [res EXCEPT ![p] = [err |-> x.err, buf |-> x.buf, tid |-> l.tmpl.id]]
    /\ pc' = [pc EXCEPT ![p] = "done"]
    /\ UNCHANGED <<cache, env, fs, call, parsed, hist, nCalls, parsers>>

\* the caller has taken the result of its call and is ready for another call
Return(p) ==
    /\ pc[p] = "done"
    /\ pc' = [pc EXCEPT ![p] = "idle"]
    /\ call' = [call EXCEPT ![p] = NoCall]
    /\ res' = [res EXCEPT ![p] = NoRes]
    /\ hist' = [hist EXCEPT ![p] = NoHist]
    /\ parsed' = [parsed EXCEPT ![p] = NoTemplate]
    /\ UNCHANGED <<cache, env, fs, nCalls, parsers>>

----------------------------------------------------------------------------
(* Environment *)

\* the application's configuration is changed
SetEnvironment ==
    /\ \E e \in Environments : e # env /\ env' = e
    /\ UNCHANGED <<cache, fs, pc, call, parsed, res, hist, nCalls, parsers>>

\* a template file is edited
WriteFile ==
    /\ \E path \in WritablePaths, text \in Contents :
          /\ text # fs[path]
          /\ fs' = [fs EXCEPT ![path] = text]
    /\ UNCHANGED <<cache, env, pc, call, parsed, res, hist, nCalls, parsers>>

----------------------------------------------------------------------------

Next ==
    \/ \E p \in Procs : CallParse(p)
    \/ \E p \in Procs : CallParseAndExecute(p)
    \/ \E p \in Procs : CallExecute(p)
    \/ \E p \in Procs : ParseCheck(p)
    \/ \E p \in Procs : ParseFiles(p)
    \/ \E p \in Procs : ParseGlobs(p)
    \/ \E p \in Procs : ParseStore(p)
    \/ \E p \in Procs : Execute(p)
    \/ \E p \in Procs : Return(p)
    \/ SetEnvironment
    \/ WriteFile

Spec == Init /\ [][Next]_vars

----------------------------------------------------------------------------
(* Parse calls one after another *)

\* a caller starts Parse(group, id, name, files, directories) when no other
\* call is running; a caller may hold on to the result of its last call
SeqCallParse(p) ==
    /\ pc[p] = "idle"
    /\ \A q \in Procs \ {p} : pc[q] \in {"idle", "done"}
    /\ nCalls < MaxSeqCalls
    /\ \E pr \in Pairs, a \in ParseArgs :
          /\ call' = [call EXCEPT ![p] =
                        [op |-> "Parse", group |-> pr[1], id |-> pr[2], name |-> a.name,
                         files |-> a.files, files0 |-> a.files, dirs |-> a.dirs,
                         data |-> NoData,
                         cid |-> [by |-> p, n |-> nCalls + 1]]]
          /\ parsers' = [parsers EXCEPT ![pr] = @ \cup {p}]
    /\ pc' = [pc EXCEPT ![p] = "parse_check"]
    /\ nCalls' = nCalls + 1
    /\ UNCHANGED <<cache, env, fs, parsed, res, hist>>

SeqNext ==
    \/ \E p \in Procs : SeqCallParse(p)
    \/ \E p \in Procs : ParseCheck(p)
    \/ \E p \in Procs : ParseFiles(p)
    \/ \E p \in Procs : ParseGlobs(p)
    \/ \E p \in Procs : ParseStore(p)
    \/ \E p \in Procs : Return(p)
    \/ SetEnvironment
    \/ WriteFile

SeqSpec == Init /\ [][SeqNext]_vars

----------------------------------------------------------------------------
(* Properties *)

ExecName(p) == call[p].name \o <<TemplateExt>>
IsParseCall(p) == call[p].op \in {"Parse", "ParseAndExecute"}
Steps(p, at) == pc[p] = at /\ pc'[p] # at

\* some file of the list does not exist when the list is resolved now
HasNonexistent(files) ==
    \E k \in 1..Len(files) : ReadFile(fs, ResolveFile(files[k])) = NoFile

\* C1: Execute on a (group, id) pair on which Parse was never called fails
\* with NotFoundError, whatever was parsed and executed on other pairs.
C1_NeverParsedNotFound ==
    \A p \in Procs :
        (pc[p] = "done" /\ call[p].op = "Execute" /\ parsers[PairOf(p)] = {})
            => res[p].err = ErrNotFound

\* C2: outside local mode, a Parse call on a key that has an entry returns
\* success whatever its name, files and directories, and leaves the cache,
\* the entry of the key included, the very same.
C2_ParseNoOpOutsideLocal ==
    [][\A p \in Procs :
          (Steps(p, "parse_check") /\ env # EnvLocal /\ CacheKeyOf(p) \in DOMAIN cache)
              => /\ cache' = cache
                 /\ call' = call
                 /\ IF call[p].op = "Parse"
                    THEN pc'[p] = "done" /\ res'[p].err = NoErr
                    ELSE pc'[p] = "exec"]_vars

\* a Parse call returned success without parsing, on a key with an entry made
\* by another call, although one of its files does not exist
C2_Witness ==
    \E p \in Procs :
        /\ pc[p] = "done" /\ call[p].op = "Parse" /\ res[p].err = NoErr
        /\ hist[p].hadEntry /\ parsed[p] = NoTemplate
        /\ HasNonexistent(call[p].files)
        /\ CacheKeyOf(p) \in DOMAIN cache
        /\ cache[CacheKeyOf(p)].id # call[p].cid

\* C3: in local mode every Parse call parses afresh, also when the key has an
\* entry: it starts a new template, loads the files as they are when it reads
\* them, and its store replaces the entry of the key by that template.
C3_LocalAlwaysReparses ==
    [][\A p \in Procs :
          /\ (Steps(p, "parse_check") /\ env = EnvLocal)
                => /\ pc'[p] = "parse_files"
                   /\ parsed'[p] = NewTemplate(call[p].cid, call[p].name)
          /\ (pc[p] = "parse_files" /\ pc'[p] = "parse_globs")
                => \A k \in 1..Len(call[p].files) :
                      LET path == ResolveFile(call[p].files[k]) IN
                      /\ Base(path) \in DOMAIN parsed'[p].bodies
                      /\ parsed'[p].bodies[Base(path)] = ReadFile(fs, path)
          /\ Steps(p, "parse_store")
                => /\ CacheKeyOf(p) \in DOMAIN cache'
                   /\ cache'[CacheKeyOf(p)] = parsed[p]
                   /\ parsed[p].id = call[p].cid]_vars

\* in local mode a ParseAndExecute on a key that had an entry has replaced it
\* and rendered the edited file
C3_Witness ==
    \E p \in Procs :
        /\ pc[p] = "done" /\ call[p].op = "ParseAndExecute" /\ res[p].err = NoErr
        /\ hist[p].hadEntry
        /\ cache[CacheKeyOf(p)].id = call[p].cid
        /\ res[p].tid = call[p].cid
        /\ res[p].buf[1] = "{{.Title}}"

\* C4 (as claimed): Parse with a file list containing a nonexistent file
\* fails with ParseError in every environment, with or without an entry.
C4_AlwaysParseError ==
    \A p \in Procs :
        (pc[p] = "done" /\ IsParseCall(p) /\ <<"missing">> \in
            { call[p].files0[k] : k \in 1..Len(call[p].files0) })
            => res[p].err = ErrParse

\* C4 (amended): Parse with a nonexistent file in its list parses afresh
\* exactly when the key has no entry or the environment is local, and then
\* fails with ParseError and no buffer and leaves the cache as it was;
\* otherwise it is a no-op.
C4_ParseErrorWhenParsing ==
    [][\A p \in Procs :
          /\ (Steps(p, "parse_check") /\ HasNonexistent(call[p].files))
                => (pc'[p] = "parse_files"
                       <=> (CacheKeyOf(p) \notin DOMAIN cache \/ env = EnvLocal))
          /\ (Steps(p, "parse_files") /\ HasNonexistent(call[p].files))
                => /\ pc'[p] = "done"
                   /\ res'[p].err = ErrParse
                   /\ res'[p].buf = NilBuf
                   /\ cache' = cache]_vars

\* a Parse with a nonexistent file failed on a key that has an entry, and the
\* entry is still the one another call made
C4_Witness ==
    \E p \in Procs :
        /\ pc[p] = "done" /\ call[p].op = "Parse" /\ res[p].err = ErrParse
        /\ hist[p].failedAt = "files" /\ hist[p].hadEntry
        /\ CacheKeyOf(p) \in DOMAIN cache
        /\ cache[CacheKeyOf(p)].id # call[p].cid
        /\ cache[CacheKeyOf(p)].bodies # EmptyBodies

\* C5: a Parse that returns an error has stored nothing: the step that
\* returns the error and every step before the store leave the cache as it
\* is, and the store is followed by success only.
C5_NoStoreOnError ==
    [][\A p \in Procs :
          /\ (pc[p] \in ParsePcs /\ pc'[p] = "done" /\ res'[p].err # NoErr)
                => cache' = cache
          /\ (pc[p] \in {"parse_check", "parse_files", "parse_globs"} /\ pc'[p] # pc[p])
                => cache' = cache
          /\ Steps(p, "parse_store")
                => (pc'[p] = "exec" \/ res'[p].err = NoErr)]_vars

\* a Parse failed at a directory after its files were loaded, on a key whose
\* entry is still the one another call made
C5_Witness ==
    \E p \in Procs :
        /\ pc[p] = "done" /\ call[p].op = "Parse" /\ res[p].err = ErrParse
        /\ hist[p].failedAt = "globs" /\ Len(call[p].files) > 0
        /\ hist[p].hadEntry
        /\ CacheKeyOf(p) \in DOMAIN cache
        /\ cache[CacheKeyOf(p)].id # call[p].cid

\* C6: Execute never mutates the cache, whether it succeeds or fails.
C6_ExecuteLeavesCache ==
    [][\A p \in Procs : Steps(p, "exec") => cache' = cache]_vars

\* two Execute calls rendered the same compiled template with different
\* data, and the template is still the entry of the key
C6_Witness ==
    \E p, q \in Procs :
        /\ p # q
        /\ pc[p] = "done" /\ call[p].op = "Execute" /\ res[p].err = NoErr
        /\ pc[q] = "done" /\ res[q].err = NoErr /\ res[q].buf # NilBuf
        /\ res[p].tid = res[q].tid
        /\ call[p].data # call[q].data
        /\ res[p].buf # res[q].buf
        /\ cache[CacheKeyOf(p)].id = res[p].tid

\* C7: Execute on a key that has an entry, with a name that is not among the
\* templates of the entry, fails with ExecutionError and returns no buffer.
C7_UndefinedNameExecutionError ==
    [][\A p \in Procs :
          (Steps(p, "exec") /\ CacheKeyOf(p) \in DOMAIN cache
              /\ ExecName(p) \notin DOMAIN cache[CacheKeyOf(p)].bodies)
              => /\ pc'[p] = "done"
                 /\ res'[p].err = ErrExec
                 /\ res'[p].buf = NilBuf]_vars

\* a ParseAndExecute whose Parse was a no-op on an entry compiled from other
\* files failed with ExecutionError
C7_Witness ==
    \E p \in Procs :
        /\ pc[p] = "done" /\ call[p].op = "ParseAndExecute"
        /\ hist[p].hadEntry /\ parsed[p] = NoTemplate /\ hist[p].failedAt = "none"
        /\ res[p].err = ErrExec
        /\ cache[CacheKeyOf(p)].bodies # EmptyBodies
        /\ ExecName(p) \notin DOMAIN cache[CacheKeyOf(p)].bodies

\* C8: ParseAndExecute returns the error of a failed Parse with no buffer and
\* without running Execute; after a successful Parse it runs Execute on the
\* same group, id and name and returns its error with no buffer, or its
\* buffer.
C8_ParseAndExecuteComposition ==
    [][\A p \in Procs : call[p].op = "ParseAndExecute" =>
          /\ (Steps(p, "parse_files") /\ Len(call[p].files) > 0
                /\ ParseFilesOp(parsed[p], ResolveFiles(call[p].files), fs).err # NoErr)
                => pc'[p] = "done"
          /\ (Steps(p, "parse_globs")
                /\ ParseDirsOp(parsed[p], call[p].dirs, fs).err # NoErr)
                => pc'[p] = "done"
          /\ (pc[p] \in ParsePcs /\ pc'[p] = "done")
                => res'[p] = [err |-> ErrParse, buf |-> NilBuf, tid |-> NoId]
          /\ Steps(p, "parse_store") => pc'[p] = "exec"
          /\ (Steps(p, "parse_check") /\ ~NeedsParse(Load(cache, call[p].group,
                                                         call[p].id).err, env))
                => pc'[p] = "exec"
          /\ Steps(p, "exec")
                => LET l == Load(cache, call[p].group, call[p].id)
                       x == ExecuteTemplate(l.tmpl, ExecName(p), call[p].data)
                   IN /\ pc'[p] = "done"
                      /\ call' = call
                      /\ res'[p].err = (IF l.err # NoErr THEN l.err ELSE x.err)
                      /\ res'[p].buf = (IF l.err # NoErr THEN NilBuf ELSE x.buf)
                      /\ (res'[p].err # NoErr => res'[p].buf = NilBuf)]_vars

\* a ParseAndExecute returned the Parse error although the key has an entry
\* that Execute would have rendered
C8_Witness ==
    \E p \in Procs :
        /\ pc[p] = "done" /\ call[p].op = "ParseAndExecute"
        /\ res[p] = [err |-> ErrParse, buf |-> NilBuf, tid |-> NoId]
        /\ hist[p].hadEntry
        /\ CacheKeyOf(p) \in DOMAIN cache
        /\ ExecName(p) \in DOMAIN cache[CacheKeyOf(p)].bodies
        /\ Render(cache[CacheKeyOf(p)].bodies[ExecName(p)], call[p].data).err = NoErr

\* C9: a caller that is the only one ever to parse its (group, id) pair gets
\* from ParseAndExecute the rendering of a template it compiled itself.
C9_DisjointPairsNoInterference ==
    \A p \in Procs :
        (pc[p] = "done" /\ call[p].op = "ParseAndExecute" /\ res[p].err = NoErr
            /\ parsers[PairOf(p)] = {p})
            => res[p].tid.by = p

\* C10: different (group, id) pairs have different cache keys.
C10_CacheKeyUnique ==
    \A p, q \in Procs :
        (pc[p] \in ParsePcs /\ pc[q] \in ParsePcs /\ PairOf(p) # PairOf(q))
            => CacheKeyOf(p) # CacheKeyOf(q)

\* C11: the cache is empty at construction, and no step removes an entry: a
\* key that has an entry has one after every step, and an Execute on it does
\* not fail with NotFoundError.
C11_NeverEvicted ==
    /\ DOMAIN cache = {}
    /\ [][/\ DOMAIN cache \subseteq DOMAIN cache'
          /\ \A p \in Procs :
                (Steps(p, "exec") /\ CacheKeyOf(p) \in DOMAIN cache)
                    => /\ CacheKeyOf(p) \in DOMAIN cache'
                       /\ res'[p].err # ErrNotFound]_vars

\* a Parse has stored an entry under one key after another call had stored
\* one under another key, and the older entry is still there
C11_Witness ==
    \E p \in Procs :
        /\ pc[p] = "done" /\ call[p].op = "Parse" /\ res[p].err = NoErr
        /\ parsed[p] # NoTemplate
        /\ cache[CacheKeyOf(p)].id = call[p].cid
        /\ \E k \in DOMAIN cache :
              /\ k # CacheKeyOf(p)
              /\ cache[k].id.n < call[p].cid.n
              /\ cache[k].id.by # p

\* no call has parsed another (group, id) pair that has the cache key of p
OnlyPairOnKey(p) ==
    \A pr \in Pairs :
        (pr # PairOf(p) /\ getCacheKey(pr[1], pr[2]) = CacheKeyOf(p))
            => parsers[pr] = {}

\* C12: outside local mode the store of a Parse call never replaces an entry
\* that the key already has: the entry stored first stays the entry.
C12_StoredOnceOutsideLocal ==
    [][\A p \in Procs :
          (Steps(p, "parse_store") /\ env # EnvLocal /\ OnlyPairOnKey(p)
              /\ CacheKeyOf(p) \in DOMAIN cache)
              => cache'[CacheKeyOf(p)] = cache[CacheKeyOf(p)]]_vars

\* the names of the templates that a complete parse of the call of p defines,
\* once its files are resolved
CompleteNames(p) ==
    { Base(call[p].files[k]) : k \in 1..Len(call[p].files) }
        \cup UNION { { Base(path) : path \in Glob(fs, GlobPattern(call[p].dirs[k])) } :
                        k \in 1..Len(call[p].dirs) }

\* C13: the cache changes only by the store of a Parse call, and a store is a
\* whole replacement: the entry of the key becomes exactly the template that
\* this one call compiled, complete (all its files, all its directories) and
\* with nothing of the entry it replaces, and the other keys keep theirs. So
\* the entry is always the result of the call that stored last.
C13_LastStoreWinsWhole ==
    [][\A p \in Procs :
          /\ Steps(p, "parse_store")
                => /\ DOMAIN cache' = DOMAIN cache \cup {CacheKeyOf(p)}
                   /\ cache'[CacheKeyOf(p)] = parsed[p]
                   /\ \A k \in DOMAIN cache : k # CacheKeyOf(p) => cache'[k] = cache[k]
                   /\ parsed[p].id = call[p].cid
                   /\ parsed[p].name = ExecName(p)
                   /\ DOMAIN parsed[p].bodies = CompleteNames(p)
          /\ (\A q \in Procs : ~Steps(q, "parse_store")) => cache' = cache]_vars

\* in local mode two calls on the same pair both found no entry and both
\* stored; the entry is the template of one of them and has nothing of the
\* template of the other
C13_Witness ==
    \E p, q \in Procs :
        /\ p # q /\ env = EnvLocal
        /\ pc[p] = "done" /\ pc[q] = "done" /\ PairOf(p) = PairOf(q)
        /\ IsParseCall(p) /\ IsParseCall(q)
        /\ parsed[p].typ = TemplateType /\ parsed[q].typ = TemplateType
        /\ hist[p].failedAt = "none" /\ hist[q].failedAt = "none"
        /\ ~hist[p].hadEntry /\ ~hist[q].hadEntry
        /\ cache[CacheKeyOf(p)] = parsed[p]
        /\ DOMAIN parsed[q].bodies \ DOMAIN cache[CacheKeyOf(p)].bodies # {}

\* C14: every value in the cache is a compiled template, so Load on any pair
\* fails with the not-found error exactly when the key is absent and returns
\* the stored template otherwise, and no call returns the cast error.
C14_CastErrorUnreachable ==
    /\ \A k \in DOMAIN cache : cache[k].typ = TemplateType
    /\ \A pr \in Pairs :
          LET l == Load(cache, pr[1], pr[2])
              key == getCacheKey(pr[1], pr[2])
          IN /\ l.err # ErrCast
             /\ l.err = ErrNotFound <=> key \notin DOMAIN cache
             /\ l.err = NoErr => l.tmpl = cache[key]
    /\ \A p \in Procs : res[p].err # ErrCast

\* an Execute call rendered the entry that Load returned, and Load returns to
\* a ParseAndExecute about to execute the template that its Parse stored
C14_Witness ==
    \E p, q \in Procs :
        /\ pc[p] = "done" /\ call[p].op = "Execute"
        /\ res[p].err = NoErr /\ res[p].tid = cache[CacheKeyOf(p)].id
        /\ pc[q] = "exec" /\ call[q].op = "ParseAndExecute"
        /\ Load(cache, call[q].group, call[q].id).tmpl.id = call[q].cid

\* C15: every Parse call decides by the environment as it is when the call
\* makes its check: it parses afresh exactly when the key has no entry or the
\* environment is local at that moment, and its store then makes its own
\* template the entry; otherwise it returns success and changes nothing.
C15_EnvironmentReadOnEveryParse ==
    [][\A p \in Procs :
          /\ Steps(p, "parse_check")
                => /\ pc'[p] = "parse_files"
                         <=> (CacheKeyOf(p) \notin DOMAIN cache \/ env = EnvLocal)
                   /\ pc'[p] # "parse_files"
                         => /\ pc'[p] = "done" /\ res'[p].err = NoErr
                            /\ cache' = cache /\ parsed' = parsed
          /\ Steps(p, "parse_store")
                => cache'[CacheKeyOf(p)].id = call[p].cid]_vars

\* on a pair that had an entry, the second Parse call found the entry and
\* replaced it (the environment was local), and the third call, made after
\* the environment was switched to non-local, found the entry and left it
C15_Witness ==
    \E p, q \in Procs :
        /\ p # q /\ env # EnvLocal /\ PairOf(p) = PairOf(q)
        /\ pc[q] = "done" /\ call[q].cid.n = 2
        /\ hist[q].hadEntry /\ parsed[q].typ = TemplateType /\ res[q].err = NoErr
        /\ pc[p] = "done" /\ call[p].cid.n = 3
        /\ hist[p].hadEntry /\ parsed[p] = NoTemplate /\ res[p].err = NoErr
        /\ cache[CacheKeyOf(p)] = parsed[q]

\* C16: when a Parse or ParseAndExecute call has returned, the files sequence
\* of the caller holds the fragments that the caller passed in.
C16_FilesUnchanged ==
    \A p \in Procs :
        (pc[p] = "done" /\ IsParseCall(p)) => call[p].files = call[p].files0

\* C17 (as claimed): in local mode a ParseAndExecute call that parsed and
\* succeeded has rendered the template that its own Parse compiled.
C17_RendersOwnTemplate ==
    \A p \in Procs :
        (pc[p] = "done" /\ call[p].op = "ParseAndExecute" /\ res[p].err = NoErr
            /\ env = EnvLocal /\ parsed[p].typ = TemplateType /\ OnlyPairOnKey(p))
            => res[p].tid = call[p].cid

\* C17 (amended): the store of a ParseAndExecute call makes its own template
\* the entry of the key; its Execute renders the entry that the key has when
\* Execute loads it; and between the two the entry changes only by the store
\* of another call on the same key, which makes that call's template the
\* entry: the last store before the load wins.
C17_RendersEntryAtLoad ==
    [][\A p \in Procs : call[p].op = "ParseAndExecute" =>
          /\ Steps(p, "parse_store")
                => /\ pc'[p] = "exec"
                   /\ cache'[CacheKeyOf(p)].id = call[p].cid
          /\ Steps(p, "exec")
                => /\ CacheKeyOf(p) \in DOMAIN cache
                   /\ res'[p].tid = cache[CacheKeyOf(p)].id
                   /\ res'[p].err = ExecuteTemplate(cache[CacheKeyOf(p)], ExecName(p),
                                                    call[p].data).err
                   /\ res'[p].buf = ExecuteTemplate(cache[CacheKeyOf(p)], ExecName(p),
                                                    call[p].data).buf
          /\ (pc[p] = "exec" /\ pc'[p] = "exec"
                /\ cache'[CacheKeyOf(p)] # cache[CacheKeyOf(p)])
                => \E q \in Procs \ {p} :
                      /\ Steps(q, "parse_store")
                      /\ CacheKeyOf(q) = CacheKeyOf(p)
                      /\ cache'[CacheKeyOf(p)].id = call[q].cid]_vars

\* in local mode two ParseAndExecute calls on the same pair both parsed and
\* both succeeded; one rendered its own template, the other rendered the
\* template of the first, stored between its own store and its Execute
C17_Witness ==
    \E p, q \in Procs :
        /\ p # q /\ env = EnvLocal /\ PairOf(p) = PairOf(q)
        /\ pc[p] = "done" /\ call[p].op = "ParseAndExecute" /\ res[p].err = NoErr
        /\ pc[q] = "done" /\ call[q].op = "ParseAndExecute" /\ res[q].err = NoErr
        /\ parsed[p].typ = TemplateType /\ parsed[q].typ = TemplateType
        /\ res[q].tid = call[q].cid
        /\ res[p].tid = call[q].cid
        /\ res[p].buf # NilBuf

\* the key of p has an entry whose template set has no template body
HasEmptyEntry(p) ==
    /\ CacheKeyOf(p) \in DOMAIN cache
    /\ cache[CacheKeyOf(p)].bodies = EmptyBodies

\* C18: a Parse with no files and no directories that parses afresh goes
\* through without error and stores a template set with no body, which Load
\* returns; Execute on such an entry fails with ExecutionError and no buffer
\* for every name; and outside local mode a Parse on such an entry, whatever
\* its files, leaves the entry as it is.
C18_EmptyParseStoresEmptySet ==
    [][\A p \in Procs :
          /\ (Steps(p, "parse_files") /\ call[p].files = <<>>)
                => pc'[p] = "parse_globs" /\ parsed'[p] = parsed[p]
          /\ (Steps(p, "parse_globs") /\ call[p].dirs = <<>>)
                => pc'[p] = "parse_store" /\ parsed'[p] = parsed[p]
          /\ (Steps(p, "parse_store") /\ call[p].files0 = <<>> /\ call[p].dirs = <<>>)
                => /\ cache'[CacheKeyOf(p)].bodies = EmptyBodies
                   /\ cache'[CacheKeyOf(p)].id = call[p].cid
                   /\ Load(cache', call[p].group, call[p].id).err = NoErr
                   /\ pc'[p] = "exec" \/ res'[p].err = NoErr
          /\ (Steps(p, "exec") /\ HasEmptyEntry(p))
                => /\ res'[p].err = ErrExec
                   /\ res'[p].buf = NilBuf
          /\ (Steps(p, "parse_check") /\ env # EnvLocal /\ HasEmptyEntry(p))
                => /\ pc'[p] \in {"done", "exec"}
                   /\ cache' = cache]_vars

\* outside local mode a ParseAndExecute with a real file found the body-less
\* entry that a Parse with no files and no directories had stored, parsed
\* nothing, and failed with ExecutionError
C18_Witness ==
    \E p \in Procs :
        /\ pc[p] = "done" /\ call[p].op = "ParseAndExecute" /\ env # EnvLocal
        /\ Len(call[p].files0) > 0 /\ call[p].files = call[p].files0
        /\ hist[p].hadEntry /\ parsed[p] = NoTemplate
        /\ HasEmptyEntry(p)
        /\ cache[CacheKeyOf(p)].id # call[p].cid
        /\ res[p] = [err |-> ErrExec, buf |-> NilBuf, tid |-> cache[CacheKeyOf(p)].id]

====
